---------------------------- MODULE Spec2Model ----------------------------
(***************************************************************************)
(* Model of em-admin.c: the M-Bus frame checks (mbus_cslong,               *)
(* mbus_checklong, mbus_checkshort), the exchange functions (mbus_io,      *)
(* mbus_io_acked), the em_* operations and main's transport lifecycle.     *)
(* Buffers are sequences of bytes 0..255; C index i is element i + 1.      *)
(***************************************************************************)
EXTENDS Integers, Sequences, FiniteSets, TLC

VARIABLES
  cphase,   \* codec harness: "idle", "built", "mangled", "checked"
  cbuf,     \* codec harness: the buffer handed to the frame check
  cmeta,    \* codec harness: how cbuf was made (fields, payload, modification)
  cres,     \* codec harness: what the frame check answered
  hphase,   \* decoder harness: position in the function under check
  hin,      \* decoder harness: its input (a reply, a settings record)
  hout,     \* decoder harness: what it produced so far
  pc,       \* main: position in main()
  argc,     \* main: number of arguments
  arg,      \* main: argv[2] ("none" when absent)
  closes,   \* main: how often close(serial_fd) was called
  written,  \* transport: every write() so far, [data, n] (n as returned)
  ret,      \* main: the value main returns
  opres,    \* main: what the dispatched operation did
  life      \* main: the calls on the serial port so far, in order

cvars == <<cphase, cbuf, cmeta, cres>>
hvars == <<hphase, hin, hout>>
mvars == <<pc, argc, arg, closes, written, ret, opres, life>>

vars == <<cphase, cbuf, cmeta, cres, hphase, hin, hout,
          pc, argc, arg, closes, written, ret, opres, life>>

(***************************************************************************)
(* Program constants (#define lines of em-admin.c).                        *)
(***************************************************************************)
MBUS_WAKEUP_CHAR == 85
MBUS_FRAME_ACK == 229
MBUS_FRAME_SHORT_START == 16
MBUS_FRAME_LONG_START == 104
MBUS_FRAME_STOP == 22
MBUS_C_SND_UD == 83
MBUS_C_REQ_UD2 == 123
MBUS_CI_DATA_SEND == 81
MBUS_CI_RSPUD12 == 114
MBUS_FRAME_SHORT_HDR_LEN == 1 + 1 + 1
MBUS_FRAME_LONG_HDR_LEN == 4 + 1 + 1 + 1
MBUS_FRAME_FTR_LEN == 1 + 1
MBUS_RSPUD12_HDR_LEN == 4 + 2 + 1 + 1 + 1 + 1 + 2
EIO == 5
EPROTO == 71

\* unsigned char arithmetic wraps at 2^8
UCHAR == 256

(***************************************************************************)
(* Bounds of the model.                                                    *)
(***************************************************************************)
MaxSmallLen == 6     \* short payloads 0 .. MaxSmallLen are all built
NumBigLens == 9      \* and the NumBigLens longest payloads, up to 252
MaxTrunc == 10       \* a built frame is cut to 0 .. MaxTrunc bytes
MaxGarbage == 2      \* or followed by 1 .. MaxGarbage bytes of garbage

(***************************************************************************)
(* Byte helpers: C's data[i], and the bit operators on naturals.           *)
(***************************************************************************)
At(data, i) == data[i + 1]

Min(a, b) == IF a < b THEN a ELSE b

RECURSIVE Pow2(_)
Pow2(n) == IF n = 0 THEN 1 ELSE 2 * Pow2(n - 1)

Shl(x, n) == x * Pow2(n)
Shr(x, n) == x \div Pow2(n)

RECURSIVE BitAnd(_, _)
BitAnd(a, b) ==
  IF a = 0 \/ b = 0 THEN 0
  ELSE (a % 2) * (b % 2) + 2 * BitAnd(a \div 2, b \div 2)

RECURSIVE BitOr(_, _)
BitOr(a, b) ==
  IF a = 0 THEN b
  ELSE IF b = 0 THEN a
  ELSE (IF (a % 2) + (b % 2) > 0 THEN 1 ELSE 0) + 2 * BitOr(a \div 2, b \div 2)

(***************************************************************************)
(* mbus_cslong: cs += frame[i] for i = 4 .. len - 3, in an unsigned char.  *)
(* It is only used here with len >= 2 (len - 2 does not wrap).             *)
(***************************************************************************)
\* the sum of frame[i .. end - 1] in an unsigned char; the range is halved so
\* that a 250-byte frame needs no deep recursion
RECURSIVE SumFrom(_, _, _)
SumFrom(frame, i, end) ==
  IF i >= end THEN 0
  ELSE IF i + 1 = end THEN At(frame, i)
  ELSE LET mid == (i + end) \div 2
       IN (SumFrom(frame, i, mid) + SumFrom(frame, mid, end)) % UCHAR

mbus_cslong(frame, len) == SumFrom(frame, 4, len - 2)

(***************************************************************************)
(* mbus_checklong.  The answer is [ret, log, crash]: the int returned, the *)
(* error line logged ("ok" when none), and whether the call never returns. *)
(* ll is an unsigned char, so data[1] + 6 wraps at 256.  With ll = 0 the   *)
(* code reads data[-1] and then runs mbus_cslong(data, 0), whose bound     *)
(* len - 2 wraps: undefined behaviour, whose outcomes are chosen by ub.    *)
(* Every outcome that returns gives ret = ll = 0.                          *)
(***************************************************************************)
UBOutcomes == {"stop", "checksum", "pass", "crash"}

Answer(rv, log) == [ret |-> rv, log |-> log, crash |-> FALSE]

CheckLongUB(ub) ==
  IF ub = "crash" THEN [ret |-> 0, log |-> "none", crash |-> TRUE]
  ELSE IF ub = "stop" THEN Answer(0, "Invalid stop header")
  ELSE IF ub = "checksum" THEN Answer(0, "Invalid checksum")
  ELSE Answer(0, "ok")

LongLL(data) == (At(data, 1) + 4 + MBUS_FRAME_FTR_LEN) % UCHAR

mbus_checklong_nocs(data, len, ub) ==
  IF len < MBUS_FRAME_LONG_HDR_LEN + MBUS_FRAME_FTR_LEN
  THEN Answer(0, "Too small")
  ELSE IF At(data, 0) # MBUS_FRAME_LONG_START \/ At(data, 3) # MBUS_FRAME_LONG_START
  THEN Answer(0, "Invalid start header")
  ELSE IF At(data, 1) # At(data, 2)
  THEN Answer(0, "Mismatching length info")
  ELSE LET ll == LongLL(data) IN
    IF ll > len THEN Answer(0, "Frame length exceeds buffer size")
    ELSE IF ll = 0 THEN CheckLongUB(ub)
    ELSE IF At(data, ll - 1) # MBUS_FRAME_STOP
    THEN Answer(0, "Invalid stop header")
    ELSE Answer(ll, "ok")

mbus_checklong(data, len, ub) ==
  IF len < MBUS_FRAME_LONG_HDR_LEN + MBUS_FRAME_FTR_LEN
  THEN Answer(0, "Too small")
  ELSE IF At(data, 0) # MBUS_FRAME_LONG_START \/ At(data, 3) # MBUS_FRAME_LONG_START
  THEN Answer(0, "Invalid start header")
  ELSE IF At(data, 1) # At(data, 2)
  THEN Answer(0, "Mismatching length info")
  ELSE LET ll == LongLL(data) IN
    IF ll > len THEN Answer(0, "Frame length exceeds buffer size")
    ELSE IF ll = 0 THEN CheckLongUB(ub)
    ELSE IF At(data, ll - 1) # MBUS_FRAME_STOP
    THEN Answer(0, "Invalid stop header")
    ELSE IF mbus_cslong(data, ll) # At(data, ll - MBUS_FRAME_FTR_LEN)
    THEN Answer(0, "Invalid checksum")
    ELSE Answer(ll, "ok")

(***************************************************************************)
(* mbus_checkshort.                                                        *)
(***************************************************************************)
mbus_checkshort_nocs(data, len) ==
  IF len < MBUS_FRAME_SHORT_HDR_LEN + MBUS_FRAME_FTR_LEN
  THEN Answer(0, "Too small")
  ELSE IF At(data, 0) # MBUS_FRAME_SHORT_START
  THEN Answer(0, "Invalid start header")
  ELSE IF At(data, MBUS_FRAME_SHORT_HDR_LEN + MBUS_FRAME_FTR_LEN - 1) # MBUS_FRAME_STOP
  THEN Answer(0, "Invalid stop header")
  ELSE Answer(MBUS_FRAME_SHORT_HDR_LEN + MBUS_FRAME_FTR_LEN, "ok")

mbus_checkshort(data, len) ==
  IF len < MBUS_FRAME_SHORT_HDR_LEN + MBUS_FRAME_FTR_LEN
  THEN Answer(0, "Too small")
  ELSE IF At(data, 0) # MBUS_FRAME_SHORT_START
  THEN Answer(0, "Invalid start header")
  ELSE IF At(data, MBUS_FRAME_SHORT_HDR_LEN + MBUS_FRAME_FTR_LEN - 1) # MBUS_FRAME_STOP
  THEN Answer(0, "Invalid stop header")
  ELSE IF (At(data, 1) + At(data, 2)) % UCHAR # At(data, MBUS_FRAME_SHORT_HDR_LEN)
  THEN Answer(0, "Invalid checksum")
  ELSE Answer(MBUS_FRAME_SHORT_HDR_LEN + MBUS_FRAME_FTR_LEN, "ok")

(***************************************************************************)
(* mbus_io, up to the write: the checksum byte of the outgoing frame is    *)
(* filled in and the frame is run through its own check.  The answer is    *)
(* [out, chk]: the frame as it would be written and the check's answer     *)
(* (log "not a frame" for the final else branch).                          *)
(***************************************************************************)
SetAt(data, i, b) == [data EXCEPT ![i + 1] = b]

mbus_io_prepare(out, outlen, ub) ==
  IF outlen = MBUS_FRAME_SHORT_HDR_LEN + MBUS_FRAME_FTR_LEN
     /\ At(out, 0) = MBUS_FRAME_SHORT_START
  THEN LET o == SetAt(out, outlen - MBUS_FRAME_FTR_LEN, (At(out, 1) + At(out, 2)) % UCHAR)
       IN [out |-> o, chk |-> mbus_checkshort(o, outlen)]
  ELSE IF outlen >= MBUS_FRAME_LONG_HDR_LEN + MBUS_FRAME_FTR_LEN
          /\ At(out, 0) = MBUS_FRAME_LONG_START
  THEN LET o == SetAt(out, outlen - MBUS_FRAME_FTR_LEN, mbus_cslong(out, outlen))
       IN [out |-> o, chk |-> mbus_checklong(o, outlen, ub)]
  ELSE [out |-> out, chk |-> Answer(0, "not a frame")]

(***************************************************************************)
(* Frame templates as the em_* functions lay them out, checksum byte 0.    *)
(***************************************************************************)
LongTemplate(c, a, ci, payload) ==
  <<MBUS_FRAME_LONG_START, 3 + Len(payload), 3 + Len(payload), MBUS_FRAME_LONG_START,
    c, a, ci>> \o payload \o <<0, MBUS_FRAME_STOP>>

ShortTemplate(c, a) == <<MBUS_FRAME_SHORT_START, c, a, 0, MBUS_FRAME_STOP>>

(***************************************************************************)
(* Codec harness: frames are built the way mbus_io builds them, possibly   *)
(* damaged on the line, and handed to the two frame checks.                *)
(***************************************************************************)
ByteSamples == {0, 22, 104, 255}

\* <<C, A, CI>> of the frames built: the header every em_* request uses, a
\* response header, and one made of the protocol's own marker bytes
HeaderSamples ==
  {<<MBUS_C_SND_UD, 254, MBUS_CI_DATA_SEND>>, <<8, 0, MBUS_CI_RSPUD12>>,
   <<MBUS_FRAME_STOP, MBUS_FRAME_LONG_START, 255>>}

Pattern(n, seed, step) == [i \in 1 .. n |-> (seed + i * step) % UCHAR]

MaxPayload == 255 - 3

PayloadLens == (0 .. MaxSmallLen) \cup ((MaxPayload + 1 - NumBigLens) .. MaxPayload)

FlipBit(b, k) == IF (b \div Pow2(k)) % 2 = 1 THEN b - Pow2(k) ELSE b + Pow2(k)

\* C indices at which a built frame of n bytes is damaged: every byte of a
\* small frame; of a big one the header, the first and last data bytes,
\* the checksum and the stop byte.
FlipPositions(n) ==
  IF n <= MBUS_FRAME_LONG_HDR_LEN + MaxSmallLen + MBUS_FRAME_FTR_LEN
  THEN 0 .. (n - 1)
  ELSE (0 .. MBUS_FRAME_LONG_HDR_LEN) \cup ((n - 4) .. (n - 1))

NoMod == [kind |-> "none", pos |-> 0, bit |-> 0]

HIdle == hphase = "off" /\ hin = <<>> /\ hout = <<>>

MIdle ==
  /\ pc = "off" /\ argc = 0 /\ arg = "none" /\ closes = 0
  /\ written = <<>> /\ ret = 0 /\ opres = <<>> /\ life = <<>>

CIdle ==
  /\ cphase = "off"
  /\ cbuf = <<>>
  /\ cmeta = <<>>
  /\ cres = <<>>

CInit ==
  /\ HIdle
  /\ MIdle
  /\ cphase = "idle"
  /\ cbuf = <<>>
  /\ cmeta = [kind |-> "none", c |-> 0, a |-> 0, ci |-> 0, payload |-> <<>>, mod |-> NoMod]
  /\ cres = Answer(0, "none")

CBuildLong ==
  /\ cphase = "idle"
  /\ \E h \in HeaderSamples, n \in PayloadLens, seed \in {0, 255} :
       LET payload == Pattern(n, seed, 7)
           tmpl == LongTemplate(h[1], h[2], h[3], payload)
       IN /\ cbuf' = SetAt(tmpl, Len(tmpl) - MBUS_FRAME_FTR_LEN, mbus_cslong(tmpl, Len(tmpl)))
          /\ cmeta' = [kind |-> "long", c |-> h[1], a |-> h[2], ci |-> h[3],
                       payload |-> payload, mod |-> NoMod]
  /\ cphase' = "built"
  /\ UNCHANGED <<cres, hvars, mvars>>

CBuildShort ==
  /\ cphase = "idle"
  /\ \E c \in ByteSamples \cup {MBUS_C_REQ_UD2}, a \in ByteSamples \cup {254} :
       /\ cbuf' = mbus_io_prepare(ShortTemplate(c, a), 5, "stop").out
       /\ cmeta' = [kind |-> "short", c |-> c, a |-> a, ci |-> 0,
                    payload |-> <<>>, mod |-> NoMod]
  /\ cphase' = "built"
  /\ UNCHANGED <<cres, hvars, mvars>>

CFlip ==
  /\ cphase = "built"
  /\ \E pos \in FlipPositions(Len(cbuf)), bit \in 0 .. 7 :
       /\ cbuf' = SetAt(cbuf, pos, FlipBit(At(cbuf, pos), bit))
       /\ cmeta' = [cmeta EXCEPT !.mod = [kind |-> "flip", pos |-> pos, bit |-> bit]]
  /\ cphase' = "mangled"
  /\ UNCHANGED <<cres, hvars, mvars>>

CTruncate ==
  /\ cphase = "built"
  /\ \E k \in 0 .. Min(MaxTrunc, Len(cbuf) - 1) :
       /\ cbuf' = SubSeq(cbuf, 1, k)
       /\ cmeta' = [cmeta EXCEPT !.mod = [kind |-> "trunc", pos |-> k, bit |-> 0]]
  /\ cphase' = "mangled"
  /\ UNCHANGED <<cres, hvars, mvars>>

CAppend ==
  /\ cphase = "built"
  /\ \E g \in 1 .. MaxGarbage, seed \in {0, MBUS_FRAME_STOP} :
       /\ cbuf' = cbuf \o Pattern(g, seed, 0)
       /\ cmeta' = [cmeta EXCEPT !.mod = [kind |-> "append", pos |-> g, bit |-> 0]]
  /\ cphase' = "mangled"
  /\ UNCHANGED <<cres, hvars, mvars>>

CCheckLong ==
  /\ cphase \in {"built", "mangled"}
  /\ \E ub \in UBOutcomes :
       cres' = [v |-> "long"] @@ mbus_checklong(cbuf, Len(cbuf), ub)
  /\ cphase' = "checked"
  /\ UNCHANGED <<cbuf, cmeta, hvars, mvars>>

CCheckShort ==
  /\ cphase \in {"built", "mangled"}
  /\ cres' = [v |-> "short"] @@ mbus_checkshort(cbuf, Len(cbuf))
  /\ cphase' = "checked"
  /\ UNCHANGED <<cbuf, cmeta, hvars, mvars>>

CNext == CBuildLong \/ CBuildShort \/ CFlip \/ CTruncate \/ CAppend \/ CCheckLong \/ CCheckShort

SpecCodec == CInit /\ [][CNext]_vars

(***************************************************************************)
(* Claims about the frame checks, under SpecCodec.                         *)
(***************************************************************************)
Accepted(r) == ~r.crash /\ r.ret > 0

CheckedLongOfBuilt ==
  /\ cphase = "checked"
  /\ cres.v = "long"
  /\ cmeta.kind = "long"
  /\ cmeta.mod.kind = "none"

\* C2: every long frame built from C, A, CI and a payload of 0..252 bytes is
\* accepted by mbus_checklong, which answers the frame length L + 6 and
\* leaves C, A, CI and the payload in place.
C2_RoundTrip ==
  CheckedLongOfBuilt =>
    /\ Accepted(cres)
    /\ cres.ret = Len(cmeta.payload) + 3 + 6
    /\ cres.ret = Len(cbuf)
    /\ At(cbuf, 4) = cmeta.c /\ At(cbuf, 5) = cmeta.a /\ At(cbuf, 6) = cmeta.ci
    /\ SubSeq(cbuf, MBUS_FRAME_LONG_HDR_LEN + 1, MBUS_FRAME_LONG_HDR_LEN + Len(cmeta.payload))
         = cmeta.payload

\* the positions of a built frame the corruption claim speaks of: the two
\* length bytes, C .. last data byte, and the checksum (long); C, A and
\* the checksum (short)
FlipInScope ==
  /\ cphase = "checked"
  /\ cmeta.mod.kind = "flip"
  /\ IF cmeta.kind = "long"
     THEN cres.v = "long"
          /\ cmeta.mod.pos \in {1, 2} \cup (4 .. (Len(cbuf) - MBUS_FRAME_FTR_LEN))
     ELSE cres.v = "short" /\ cmeta.mod.pos \in {1, 2, 3}

\* C3: a built frame with one bit flipped in C, A, CI, the data, a length
\* byte or the checksum byte is never accepted by the check of its kind.
C3_FlipRejected == FlipInScope => ~Accepted(cres)

C3_Witness ==
  /\ FlipInScope
  /\ cmeta.kind = "long"
  /\ cmeta.mod.pos >= MBUS_FRAME_LONG_HDR_LEN
  /\ Len(cmeta.payload) > 0
  /\ cres.log = "Invalid checksum"

\* the classification the claim gives: the first failing check in the
\* order too small (below 8), start, length copies, buffer, stop, checksum
ClaimedLong(buf) ==
  LET n == Len(buf) IN
  IF n < 8 THEN Answer(0, "Too small")
  ELSE IF At(buf, 0) # MBUS_FRAME_LONG_START \/ At(buf, 3) # MBUS_FRAME_LONG_START
  THEN Answer(0, "Invalid start header")
  ELSE IF At(buf, 1) # At(buf, 2) THEN Answer(0, "Mismatching length info")
  ELSE LET total == At(buf, 1) + 6 IN
    IF total > n THEN Answer(0, "Frame length exceeds buffer size")
    ELSE IF At(buf, total - 1) # MBUS_FRAME_STOP THEN Answer(0, "Invalid stop header")
    ELSE IF SumFrom(buf, 4, total - 2) # At(buf, total - 2) THEN Answer(0, "Invalid checksum")
    ELSE Answer(total, "ok")

\* C7: mbus_checklong answers every buffer with the first failing check in
\* the claimed order (too small exactly below 8 bytes, buffer too small
\* whenever L + 6 exceeds the buffer) and on success with exactly L + 6.
C7_Classification ==
  (cphase = "checked" /\ cres.v = "long") =>
    /\ ~cres.crash
    /\ cres.log = ClaimedLong(cbuf).log
    /\ cres.ret = ClaimedLong(cbuf).ret


(***************************************************************************)
(* The device settings block.  A settings record stands for the EM_SET_*   *)
(* macros; SetParamsFrame is em_set_params' frame_out initialiser and      *)
(* em_dump_settings what the dump logs: numbers as printed with %d / %x,   *)
(* the masks as bitprint's '0'/'1' strings (here sequences of 0 and 1,     *)
(* most significant bit first).                                            *)
(***************************************************************************)
EM_ENA_STARTVOL == 8
EM_ENA_STARTDATE == 16

\* bitprint: data[i] = (val & (1 << (len - i - 1))) ? '1' : '0'
bitprint(val, len) ==
  [k \in 1 .. len |-> IF BitAnd(val, Shl(1, len - (k - 1) - 1)) # 0 THEN 1 ELSE 0]

PackedDate(s) == BitOr(BitOr(Shl(s.year - 2000, 9), Shl(s.month, 5)), s.day)

SetParamsFrame(s) ==
  <<MBUS_FRAME_LONG_START, 36, 36, MBUS_FRAME_LONG_START,
    MBUS_C_SND_UD, 254, MBUS_CI_DATA_SEND,
    15, 129,
    0, 0, 96,
    0, 0, 0, 0,
    s.flags % UCHAR,
    s.omsmode % UCHAR,
    s.frametype % UCHAR,
    BitAnd(Shr(s.interval, 0), 255),
    BitAnd(Shr(s.interval, 8), 255),
    BitAnd(Shr(s.months, 0), 255),
    BitAnd(Shr(s.months, 8), 255),
    BitAnd(Shr(s.weekoms, 0), 255),
    BitAnd(Shr(s.weekoms, 8), 255),
    BitAnd(Shr(s.weekoms, 16), 255),
    BitAnd(Shr(s.weekoms, 24), 255),
    s.dayows % UCHAR,
    BitAnd(Shr(s.hours, 0), 255),
    BitAnd(Shr(s.hours, 8), 255),
    BitAnd(Shr(s.hours, 16), 255),
    BitAnd(Shr(PackedDate(s), 0), 255),
    BitAnd(Shr(PackedDate(s), 8), 255),
    BitAnd(Shr(s.onvol, 0), 255),
    BitAnd(Shr(s.onvol, 8), 255),
    s.opyears % UCHAR,
    0, 0, 0, 0,
    0,
    MBUS_FRAME_STOP>>

\* the dump with the month taken from data[15] alone
em_dump_settings_lowmonth(data) ==
  [flags |-> At(data, 0),
   omsmode |-> At(data, 1),
   frametype |-> At(data, 2),
   interval |-> BitOr(Shl(At(data, 4), 8), At(data, 3)),
   months |-> bitprint(BitOr(Shl(At(data, 6), 8), At(data, 5)), 12),
   weekoms |-> bitprint(BitOr(BitOr(BitOr(Shl(At(data, 10) % 128, 24), Shl(At(data, 9), 16)),
                                    Shl(At(data, 8), 8)), At(data, 7)), 31),
   dayows |-> bitprint(At(data, 11), 7),
   hours |-> bitprint(BitOr(BitOr(Shl(At(data, 14), 16), Shl(At(data, 13), 8)),
                            At(data, 12)), 24),
   year |-> 2000 + Shr(BitAnd(At(data, 16), 254), 1),
   month |-> Shr(BitAnd(At(data, 15), 224), 5),
   day |-> BitAnd(At(data, 15), 31),
   ondayActive |-> BitAnd(At(data, 0), EM_ENA_STARTDATE) # 0,
   onvol |-> BitOr(Shl(At(data, 18), 8), At(data, 17)),
   onvolActive |-> BitAnd(At(data, 0), EM_ENA_STARTVOL) # 0,
   opyears |-> At(data, 19)]

\* data[10] << 24 is an int and overflows with data[10] >= 128; bitprint
\* looks at bits 0 .. 30 only, so the weekoms value is kept to those bits.
em_dump_settings(data) ==
  [flags |-> At(data, 0),
   omsmode |-> At(data, 1),
   frametype |-> At(data, 2),
   interval |-> BitOr(Shl(At(data, 4), 8), At(data, 3)),
   months |-> bitprint(BitOr(Shl(At(data, 6), 8), At(data, 5)), 12),
   weekoms |-> bitprint(BitOr(BitOr(BitOr(Shl(At(data, 10) % 128, 24), Shl(At(data, 9), 16)),
                                    Shl(At(data, 8), 8)), At(data, 7)), 31),
   dayows |-> bitprint(At(data, 11), 7),
   hours |-> bitprint(BitOr(BitOr(Shl(At(data, 14), 16), Shl(At(data, 13), 8)),
                            At(data, 12)), 24),
   year |-> 2000 + Shr(BitAnd(At(data, 16), 254), 1),
   month |-> Shr(BitAnd(BitOr(Shl(At(data, 16), 8), At(data, 15)), 480), 5),
   day |-> BitAnd(At(data, 15), 31),
   ondayActive |-> BitAnd(At(data, 0), EM_ENA_STARTDATE) # 0,
   onvol |-> BitOr(Shl(At(data, 18), 8), At(data, 17)),
   onvolActive |-> BitAnd(At(data, 0), EM_ENA_STARTVOL) # 0,
   opyears |-> At(data, 19)]

\* the settings em-admin.c is configured with (EM_SET_* as shipped)
ConfiguredSettings ==
  [flags |-> 7, omsmode |-> 3, frametype |-> 18, interval |-> 7 * 60,
   months |-> 4095, weekoms |-> 2147483647, dayows |-> 127, hours |-> Pow2(24) - 1,
   year |-> 2024, month |-> 1, day |-> 1, onvol |-> 1000, opyears |-> 10]

(***************************************************************************)
(* Settings harness: valid settings records are laid out by em_set_params  *)
(* and dumped from the frame, as em_set_params does before it sends.       *)
(***************************************************************************)
NumSettings == 150   \* settings records 0 .. NumSettings - 1 are drawn

Pick(seq, k) == seq[(k % Len(seq)) + 1]

SettingsSample(k) ==
  [flags |-> Pick(<<7, 0, 31, 24, 1>>, k),
   omsmode |-> Pick(<<3, 1, 17, 19>>, k),
   frametype |-> Pick(<<18, 17>>, k),
   interval |-> Pick(<<420, 0, 65535, 255, 256, 1, 32768>>, k),
   months |-> Pick(<<4095, 0, 1, 2048, 2730, 1365, 256, 255>>, k \div 2),
   weekoms |-> Pick(<<2147483647, 0, 1, Pow2(30), 255, 32512, 8355840, 2139095040,
                      1431655765>>, k \div 3),
   dayows |-> Pick(<<127, 0, 1, 64, 85>>, k \div 2),
   hours |-> Pick(<<Pow2(24) - 1, 0, 1, Pow2(23), 65280, 11184810>>, k \div 5),
   year |-> 2000 + ((k * 37) % 128),
   month |-> 1 + (k % 12),
   day |-> 1 + ((k * 7) % 31),
   onvol |-> Pick(<<1000, 0, 65535, 256, 255>>, k \div 3),
   opyears |-> Pick(<<10, 0, 255, 128>>, k \div 7)]

SInit ==
  /\ CIdle
  /\ MIdle
  /\ hphase = "settings"
  /\ \E k \in 0 .. (NumSettings - 1) : hin = SettingsSample(k)
  /\ hout = <<>>

\* em_set_params, lines 619-653: the frame is laid out
SLayout ==
  /\ hphase = "settings"
  /\ hphase' = "laid out"
  /\ hout' = [frame |-> SetParamsFrame(hin)]
  /\ UNCHANGED <<hin, cvars, mvars>>

\* em_set_params, line 656: em_dump_settings(frame_out + 7 + 9)
SDump ==
  /\ hphase = "laid out"
  /\ hphase' = "dumped"
  /\ hout' = [frame |-> hout.frame,
              dump |-> em_dump_settings(SubSeq(hout.frame, MBUS_FRAME_LONG_HDR_LEN + 9 + 1,
                                               MBUS_FRAME_LONG_HDR_LEN + 9 + 20))]
  /\ UNCHANGED <<hin, cvars, mvars>>

SNext == SLayout \/ SDump

SpecSettings == SInit /\ [][SNext]_vars

\* the number a '0'/'1' string of bitprint stands for
RECURSIVE FromBits(_)
FromBits(bits) ==
  IF bits = <<>> THEN 0
  ELSE 2 * FromBits(SubSeq(bits, 1, Len(bits) - 1)) + bits[Len(bits)]

\* C10: a valid settings record laid out in the 20-byte block by
\* em_set_params and dumped by em_dump_settings comes back field by field.
C10_SettingsRoundTrip ==
  hphase = "dumped" =>
    LET d == hout.dump IN
    /\ d.flags = hin.flags /\ d.omsmode = hin.omsmode /\ d.frametype = hin.frametype
    /\ d.interval = hin.interval
    /\ Len(d.months) = 12 /\ FromBits(d.months) = hin.months
    /\ Len(d.weekoms) = 31 /\ FromBits(d.weekoms) = hin.weekoms
    /\ Len(d.dayows) = 7 /\ FromBits(d.dayows) = hin.dayows
    /\ Len(d.hours) = 24 /\ FromBits(d.hours) = hin.hours
    /\ d.year = hin.year /\ d.month = hin.month /\ d.day = hin.day
    /\ d.onvol = hin.onvol /\ d.opyears = hin.opyears
    /\ d.ondayActive = (BitAnd(hin.flags, EM_ENA_STARTDATE) # 0)
    /\ d.onvolActive = (BitAnd(hin.flags, EM_ENA_STARTVOL) # 0)

C10_Witness ==
  /\ hphase = "dumped"
  /\ hin.month = 12
  /\ hin.year > 2100
  /\ hout.dump.month = 12
  /\ Len(hout.frame) = 42


(***************************************************************************)
(* Device replies: well-formed long frames of a given total length, as     *)
(* they arrive in frame_in.  Bytes of frame_in that were not received are  *)
(* whatever the stack held: Rd answers them from the input's stale byte.   *)
(***************************************************************************)
DeviceFrame(total, seed, step) ==
  LET tmpl == LongTemplate(8, 0, MBUS_CI_RSPUD12,
                           Pattern(total - MBUS_FRAME_LONG_HDR_LEN - MBUS_FRAME_FTR_LEN,
                                   seed, step))
  IN SetAt(tmpl, total - MBUS_FRAME_FTR_LEN, mbus_cslong(tmpl, total))

FrameAround(data) ==
  LET tmpl == LongTemplate(8, 0, MBUS_CI_RSPUD12, data)
  IN SetAt(tmpl, Len(tmpl) - MBUS_FRAME_FTR_LEN, mbus_cslong(tmpl, Len(tmpl)))

Rd(in, k) == IF k < Len(in.buf) THEN At(in.buf, k) ELSE in.stale

(***************************************************************************)
(* A 32-bit reading b3 << 24 | b2 << 16 | b1 << 8 | b0 computed in int     *)
(* (em_read_months, em_read_highres).  With b3 >= 128 the shift overflows  *)
(* the int: undefined, answered by ubi (the wrapped value, or any other    *)
(* int, here its two extremes).                                            *)
(***************************************************************************)
IntUB == {"wrap", "min", "max"}

Low24(b0, b1, b2) == BitOr(BitOr(Shl(b2, 16), Shl(b1, 8)), b0)

Reading32(b0, b1, b2, b3, ubi) ==
  IF b3 < 128 THEN BitOr(Shl(b3, 24), Low24(b0, b1, b2))
  ELSE IF ubi = "wrap" THEN (b3 - 256) * Pow2(24) + Low24(b0, b1, b2)
  ELSE IF ubi = "min" THEN (-2147483647) - 1
  ELSE 2147483647

(***************************************************************************)
(* em_read_months, lines 553-558: the 15 records of one reply.             *)
(***************************************************************************)
MonthsOff(i) == MBUS_FRAME_LONG_HDR_LEN + MBUS_RSPUD12_HDR_LEN + i * 6

\* the record with the year taken as 2000 + byte 1, not shifted
MonthsRecord_noshift(in, i, ubi) ==
  LET off == MonthsOff(i) IN
  [off |-> off,
   year |-> 2000 + Rd(in, off + 1),
   month |-> Shr(BitAnd(BitOr(Shl(Rd(in, off + 1), 8), Rd(in, off)), 480), 5),
   day |-> BitAnd(Rd(in, off), 31),
   reading |-> Reading32(Rd(in, off + 2), Rd(in, off + 3), Rd(in, off + 4),
                         Rd(in, off + 5), ubi)]

MonthsRecord(in, i, ubi) ==
  LET off == MonthsOff(i) IN
  [off |-> off,
   year |-> 2000 + Shr(BitAnd(Rd(in, off + 1), 254), 1),
   month |-> Shr(BitAnd(BitOr(Shl(Rd(in, off + 1), 8), Rd(in, off)), 480), 5),
   day |-> BitAnd(Rd(in, off), 31),
   reading |-> Reading32(Rd(in, off + 2), Rd(in, off + 3), Rd(in, off + 4),
                         Rd(in, off + 5), ubi)]

MonthsRecords(in, ubi) == [k \in 1 .. 15 |-> MonthsRecord(in, k - 1, ubi)]

\* lines 548-558: the reply is checked against the floor of 111, then read
MonthsInterpret(in, ub, ubi) ==
  LET chk == mbus_checklong(in.buf, Len(in.buf), ub) IN
  IF chk.crash THEN [ret |-> 0, crash |-> TRUE, recs |-> <<>>]
  ELSE IF chk.ret < 111 THEN [ret |-> EPROTO, crash |-> FALSE, recs |-> <<>>]
  ELSE [ret |-> 0, crash |-> FALSE, recs |-> MonthsRecords(in, ubi)]

(***************************************************************************)
(* Months harness: replies to read_months are interpreted.                 *)
(***************************************************************************)
NumSeeds == 12       \* payload patterns start at NumSeeds different bytes

SeedByte(k) == (k * 37) % UCHAR

MonthsTotals == {110, 111, 117, 256}

MInit ==
  /\ CIdle
  /\ MIdle
  /\ hphase = "months reply"
  /\ \E total \in MonthsTotals, k \in 0 .. (NumSeeds - 1), step \in {0, 1, 7, 85} :
       hin = [buf |-> DeviceFrame(total, SeedByte(k), step), stale |-> 0, i |-> 0]
  /\ hout = <<>>

MInterpretReply ==
  /\ hphase = "months reply"
  /\ hphase' = "months done"
  /\ \E ub \in UBOutcomes, ubi \in IntUB : hout' = MonthsInterpret(hin, ub, ubi)
  /\ UNCHANGED <<hin, cvars, mvars>>

\* line 538: after the first reply was read the loop runs once more (i = 1)
MNextExchange ==
  /\ hphase = "months done"
  /\ ~hout.crash /\ hout.ret = 0
  /\ hin.i = 0
  /\ hphase' = "months reply"
  /\ \E total \in MonthsTotals, step \in {0, 85} :
       hin' = [buf |-> DeviceFrame(total, hin.buf[8], step), stale |-> 0, i |-> 1]
  /\ hout' = <<>>
  /\ UNCHANGED <<cvars, mvars>>

MNext == MInterpretReply \/ MNextExchange

SpecMonths == MInit /\ [][MNext]_vars

MonthsRead == hphase = "months done" /\ ~hout.crash /\ hout.ret = 0

\* the six bytes of record k (1 .. 15) as they lie in the reply
MonthsRaw(k) == SubSeq(hin.buf, MonthsOff(k - 1) + 1, MonthsOff(k - 1) + 6)

\* C9 as stated: 15 records, each with year in 2000..2127, month in 1..12,
\* day in 1..31 and a reading >= 0, whatever the payload bytes are.
C9_Original ==
  MonthsRead =>
    /\ Len(hout.recs) = 15
    /\ \A k \in 1 .. 15 :
         /\ hout.recs[k].year \in 2000 .. 2127
         /\ hout.recs[k].month \in 1 .. 12
         /\ hout.recs[k].day \in 1 .. 31
         /\ hout.recs[k].reading >= 0

\* C9 (amended): a reply of at least 111 bytes yields exactly 15 records at
\* offsets 19 + 6k; each has year in 2000..2127, month in 0..15 and day in
\* 0..31 taken from its first two bytes, and its reading is the
\* little-endian value of its last four bytes, >= 0, whenever the top byte
\* is below 128.
C9_MonthsRecords ==
  MonthsRead =>
    /\ Len(hin.buf) >= 111
    /\ Len(hout.recs) = 15
    /\ \A k \in 1 .. 15 :
         LET r == hout.recs[k]
             raw == MonthsRaw(k)
         IN /\ r.off = 19 + 6 * (k - 1)
            /\ r.year \in 2000 .. 2127
            /\ r.year = 2000 + (raw[2] \div 2)
            /\ r.month \in 0 .. 15
            /\ r.month = (raw[1] \div 32) + 8 * (raw[2] % 2)
            /\ r.day \in 0 .. 31
            /\ r.day = raw[1] % 32
            /\ (raw[6] < 128 =>
                  /\ r.reading >= 0
                  /\ r.reading = raw[3] + 256 * raw[4] + 65536 * raw[5] + 16777216 * raw[6])

C9_Witness ==
  /\ MonthsRead
  /\ Len(hin.buf) = 111
  /\ hout.recs[15].off = 103
  /\ hout.recs[15].month > 12
  /\ hout.recs[1].reading < 0


(***************************************************************************)
(* em_read_info's record walk, lines 440-479.  InfoIter is one pass of the *)
(* loop at cursor p: [brk |-> TRUE] when the DIF's low nibble exceeds 7,   *)
(* else the record logged and the next cursor.  A 4-byte value is cast to  *)
(* unsigned long before the shifts and does not overflow; it is kept as    *)
(* its two 16-bit halves <<high, low>>.                                    *)
(***************************************************************************)
ldb == <<0, 1, 2, 3, 4, 4, 6, 8>>

RECURSIVE Digits(_)
Digits(n) == IF n < 10 THEN 1 ELSE 1 + Digits(n \div 10)

\* the width of %0wd
Width(n, w) == IF Digits(n) > w THEN Digits(n) ELSE w

\* the width of %ld for the value with halves <<high, low>>
WidthHalves(v) == IF v[1] >= 32768 THEN 10 ELSE Digits(v[1] * 65536 + v[2])

InfoYear_lowonly(b2, b3) == 2000 + Shr(BitAnd(b3, 240), 1)

InfoYear(b2, b3) == 2000 + BitOr(Shr(b2, 5), Shr(BitAnd(b3, 240), 1))

InfoIter(in, p) ==
  LET hasdife == Shr(BitAnd(Rd(in, p), 128), 7)
      hasvife == Shr(BitAnd(Rd(in, p + 1 + hasdife), 128), 7)
      d == p + 1 + hasdife + 1 + hasvife
      df == BitAnd(Rd(in, p), 15)
      vif == Rd(in, p + hasdife + 1)
  IN IF df > 7 THEN [brk |-> TRUE]
     ELSE
       LET l == ldb[df + 1]
           sn0 == Shr(BitAnd(Rd(in, p), 64), 6)
           sn == IF hasdife = 1 THEN BitOr(sn0, Shl(BitAnd(Rd(in, p + 1), 15), 1)) ELSE sn0
           raw == [j \in 1 .. l |-> Rd(in, d + j - 1)]
           kind == IF df = 4 /\ vif = 109 THEN "datetime"
                   ELSE IF df = 4 THEN "int"
                   ELSE IF df = 2 /\ vif = 108 THEN "date"
                   ELSE "raw"
           val == IF kind = "datetime"
                  THEN <<InfoYear(Rd(in, d + 2), Rd(in, d + 3)), BitAnd(Rd(in, d + 3), 15),
                         BitAnd(Rd(in, d + 2), 31), Rd(in, d + 1), Rd(in, d)>>
                  ELSE IF kind = "int"
                  THEN <<BitOr(Shl(Rd(in, d + 3), 8), Rd(in, d + 2)),
                         BitOr(Shl(Rd(in, d + 1), 8), Rd(in, d))>>
                  ELSE IF kind = "date"
                  THEN <<InfoYear(Rd(in, d), Rd(in, d + 1)), BitAnd(Rd(in, d + 1), 15),
                         BitAnd(Rd(in, d), 31)>>
                  ELSE <<>>
           \* characters sprintf puts into buf[64], lines 448-474
           chars == 7 + 3 + 8 + 3 + (5 + Digits(sn)) + 6 + 3 * l
                    + (IF kind = "datetime"
                       THEN 6 + Width(val[1], 4) + 1 + Width(val[2], 2) + 1 + Width(val[3], 2)
                            + 1 + Width(val[4], 2) + 1 + Width(val[5], 2)
                       ELSE IF kind = "int" THEN 6 + WidthHalves(val)
                       ELSE IF kind = "date"
                       THEN 12 + Width(val[1], 4) + 1 + Width(val[2], 2) + 1 + Width(val[3], 2)
                       ELSE 0)
       IN [brk |-> FALSE,
           rec |-> [p |-> p, d |-> d, l |-> l, dif |-> Rd(in, p), vif |-> vif, sn |-> sn,
                    raw |-> raw, kind |-> kind, val |-> val, top |-> d + l - 1],
           chars |-> chars,
           next |-> d + l]

(***************************************************************************)
(* The offsets of frame_in that one pass of the loop at cursor p reads,    *)
(* lines 444-473: the four header bytes p .. p + 2 + hasdife are arguments *)
(* of the sprintf calls whether or not a DIFE or VIFE is there, and are    *)
(* read before the test of the DIF; the l data bytes follow at d.          *)
(***************************************************************************)
InfoReads(in, p) ==
  LET hasdife == Shr(BitAnd(Rd(in, p), 128), 7)
      hasvife == Shr(BitAnd(Rd(in, p + 1 + hasdife), 128), 7)
      d == p + 1 + hasdife + 1 + hasvife
      df == BitAnd(Rd(in, p), 15)
      header == {p, p + 1, p + 1 + hasdife, p + 1 + hasdife + 1}
  IN IF df > 7 THEN header
     ELSE header \cup {d + j : j \in 0 .. (ldb[df + 1] - 1)}

(***************************************************************************)
(* Info harness: a reply to read_info is checked against the floor of 71   *)
(* (line 433) and walked one record at a time.  A log line of more than 63 *)
(* characters overruns buf[64]: undefined, the run goes on or is aborted.  *)
(***************************************************************************)
RecordSamples ==
  << <<4, 109, 0, 0, 96, 1>>,
     <<4, 109, 59, 23, 255, 252>>,
     <<4, 19, 1, 2, 3, 4>>,
     <<4, 19, 255, 255, 255, 255>>,
     <<66, 108, 225, 241>>,
     <<132, 1, 109, 30, 12, 191, 18>>,
     <<2, 253, 23, 0, 0>>,
     <<7, 121, 1, 2, 3, 4, 5, 6, 7, 8>>,
     <<1, 124, 5>>,
     <<15>> >>

Fillers == {0, 15, 47, 4, 7}

BufOverrun == {"goes on", "aborted"}

InfoTotals == {70, 71, 78, 255}

IInit ==
  /\ CIdle
  /\ MIdle
  /\ hphase = "info reply"
  /\ \E a \in 1 .. Len(RecordSamples), b \in 1 .. Len(RecordSamples),
        f \in Fillers, total \in InfoTotals, st \in {0, 255} :
       LET lead == Pattern(MBUS_RSPUD12_HDR_LEN, 18, 1) \o RecordSamples[a] \o RecordSamples[b]
           room == total - MBUS_FRAME_LONG_HDR_LEN - MBUS_FRAME_FTR_LEN
       IN hin = [buf |-> FrameAround(SubSeq(lead \o Pattern(room, f, 0), 1, room)),
                 stale |-> st]
  /\ hout = [p |-> 0, i |-> 0, recs |-> <<>>, ret |-> -1, reads |-> {}]

\* lines 433-439
ICheck ==
  /\ hphase = "info reply"
  /\ \E ub \in UBOutcomes :
       LET chk == mbus_checklong(hin.buf, Len(hin.buf), ub) IN
       IF chk.crash
       THEN hphase' = "crashed" /\ hout' = hout
       ELSE IF chk.ret < 71
       THEN hphase' = "info done" /\ hout' = [hout EXCEPT !.ret = EPROTO]
       ELSE /\ hphase' = "info walk"
            /\ hout' = [hout EXCEPT !.p = MBUS_FRAME_LONG_HDR_LEN + MBUS_RSPUD12_HDR_LEN]
  /\ UNCHANGED <<hin, cvars, mvars>>

\* lines 440-482: one pass of the loop
IStep ==
  /\ hphase = "info walk"
  /\ \E ovr \in BufOverrun :
       LET it == InfoIter(hin, hout.p)
           reads == hout.reads \cup InfoReads(hin, hout.p)
       IN
       IF it.brk
       THEN hphase' = "info done" /\ hout' = [hout EXCEPT !.ret = 0, !.reads = reads]
       ELSE IF it.chars > 63 /\ ovr = "aborted"
       THEN hphase' = "crashed" /\ hout' = [hout EXCEPT !.reads = reads]
       ELSE /\ hout' = [p |-> it.next, i |-> hout.i + 1,
                        recs |-> Append(hout.recs, it.rec),
                        ret |-> IF it.next > At(hin.buf, 1) THEN 0 ELSE -1,
                        reads |-> reads]
            /\ hphase' = IF it.next > At(hin.buf, 1) THEN "info done" ELSE "info walk"
  /\ UNCHANGED <<hin, cvars, mvars>>

INext == ICheck \/ IStep

SpecInfo == IInit /\ [][INext]_vars

\* the bytes of a logged record as they lie in the reply, DIF to last data byte
RecBytes(r) == [j \in 1 .. (r.top - r.p + 1) |-> Rd(hin, r.p + j - 1)]

IsLiteralRecord(r) == RecBytes(r) = <<4, 109, 0, 0, 96, 1>>

\* C8 as stated: the record 04 6D 00 00 60 01 decodes to minute 0, hour 0,
\* day 0, month 1, year 2000.
C8_Original ==
  \A k \in 1 .. Len(hout.recs) :
    (hphase \in {"info walk", "info done"} /\ IsLiteralRecord(hout.recs[k])) =>
      (hout.recs[k].kind = "datetime" /\ hout.recs[k].val = <<2000, 1, 0, 0, 0>>)

\* C8 (amended): the record 04 6D 00 00 60 01 decodes to minute 0, hour 0,
\* day 0, month 1, year 2003: the high three bits of 0x60 are the low bits
\* of the year offset.
C8_LiteralDatetime ==
  \A k \in 1 .. Len(hout.recs) :
    (hphase \in {"info walk", "info done"} /\ IsLiteralRecord(hout.recs[k])) =>
      (hout.recs[k].kind = "datetime" /\ hout.recs[k].val = <<2003, 1, 0, 0, 0>>)

C8_Witness ==
  /\ hphase = "info done"
  /\ hout.ret = 0
  /\ Len(hout.recs) >= 2
  /\ IsLiteralRecord(hout.recs[1])
  /\ hout.recs[1].p = 19
  /\ hout.recs[1].val[1] = 2003

\* the frame walked: its length field L and the offset of its checksum
InfoL == At(hin.buf, 1)

InfoWalked == hphase \in {"info walk", "info done", "crashed"} /\ hout.p >= 19

\* C11: while a validated reply of at least 71 bytes is walked, every
\* offset of the receive buffer that is read lies below the checksum offset
\* L + 4, hence inside the frame and inside the 256 bytes of frame_in.
C11_ReadsInsideRecordArea ==
  InfoWalked =>
    \A k \in hout.reads : k < InfoL + 4 /\ k < Len(hin.buf) /\ k < 256

\* C12: the walk over a validated reply ends with success: each record
\* logged starts beyond the one before, the walk is never cut off, it ends
\* at a DIF whose low nibble exceeds 7 (nothing logged for it) or with the
\* cursor beyond L, and read_info then answers 0.
C12_WalkEndsInSuccess ==
  InfoWalked =>
    /\ \A k \in 1 .. Len(hout.recs) :
         /\ hout.recs[k].top + 1 > hout.recs[k].p
         /\ (k > 1 => hout.recs[k].p = hout.recs[k - 1].top + 1)
    /\ hphase # "crashed"
    /\ (hphase = "info done" =>
         /\ hout.ret = 0
         /\ (hout.p > InfoL \/ BitAnd(Rd(hin, hout.p), 15) > 7))


(***************************************************************************)
(* The transport and the exchange functions.  write() answers wr (the      *)
(* frame length, fewer bytes, or -1), the line then delivers avail, of     *)
(* which serial_read takes at most maxbytes.  Only timeouts and delivered  *)
(* bytes are modelled, not a failing read().                               *)
(***************************************************************************)
serial_write(data, len, wr) == [data |-> data, n |-> wr]

\* a timeout answered with 0
serial_read_zero(avail, maxbytes) ==
  LET p == Min(Len(avail), maxbytes) IN
  [ret |-> p, data |-> SubSeq(avail, 1, p)]

serial_read(avail, maxbytes) ==
  LET p == Min(Len(avail), maxbytes) IN
  IF p = 0 THEN [ret |-> -EIO, data |-> <<>>]
  ELSE [ret |-> p, data |-> SubSeq(avail, 1, p)]

\* [ret, in, writes, crash]; writes holds the write() calls made
mbus_io(out, outlen, inlen, wr, avail, ub) ==
  LET prep == mbus_io_prepare(out, outlen, ub) IN
  IF prep.chk.crash THEN [ret |-> 0, in |-> <<>>, writes |-> <<>>, crash |-> TRUE]
  ELSE IF prep.chk.ret = 0
  THEN [ret |-> -EPROTO, in |-> <<>>, writes |-> <<>>, crash |-> FALSE]
  ELSE LET w == serial_write(prep.out, outlen, wr)
           r == serial_read(avail, inlen)
       IN [ret |-> r.ret, in |-> r.data, writes |-> <<w>>, crash |-> FALSE]

\* what an operation did: its return value, the write() calls, the
\* exchanges [reply, ret] (bytes delivered, mbus_io's answer) and what it
\* decoded and logged
Res(rv, writes, ios, shown) ==
  [ret |-> rv, writes |-> writes, ios |-> ios, shown |-> shown, crash |-> FALSE]

Died(writes, ios, shown) ==
  [ret |-> 0, writes |-> writes, ios |-> ios, shown |-> shown, crash |-> TRUE]

Io(avail, io) == [reply |-> avail, ret |-> io.ret]

mbus_io_acked(out, outlen, wr, avail, ub) ==
  LET io == mbus_io(out, outlen, 8, wr, avail, ub) IN
  IF io.crash THEN Died(io.writes, <<>>, <<>>)
  ELSE IF io.ret < 0 THEN Res(-io.ret, io.writes, <<Io(avail, io)>>, <<>>)
  ELSE IF io.ret < 1 \/ At(io.in, 0) # MBUS_FRAME_ACK
  THEN Res(EPROTO, io.writes, <<Io(avail, io)>>, <<>>)
  ELSE Res(0, io.writes, <<Io(avail, io)>>, <<>>)

\* mbus_wakeup: 20 writes of 25 wakeup characters, results ignored
WakeupFrame == Pattern(25, MBUS_WAKEUP_CHAR, 0)

mbus_wakeup(wr) == [k \in 1 .. 20 |-> serial_write(WakeupFrame, 25, wr)]

(***************************************************************************)
(* The operations.  Each takes what the environment does during it.        *)
(***************************************************************************)
EM_SET_KEYDAY_MONTH == 10
EM_SET_KEYDAY_DAY == 3

SetTimeFrame(tm) ==
  <<MBUS_FRAME_LONG_START, 10, 10, MBUS_FRAME_LONG_START,
    MBUS_C_SND_UD, 254, MBUS_CI_DATA_SEND,
    4, 237, 0,
    tm.min, tm.hour,
    BitOr(Shl(BitAnd(tm.year - 2000, 7), 5), tm.mday) % UCHAR,
    BitOr(Shl(BitAnd(tm.year - 2000, 120), 1), tm.mon + 1) % UCHAR,
    0, MBUS_FRAME_STOP>>

em_set_time(tm, wr, avail, ub) == mbus_io_acked(SetTimeFrame(tm), 16, wr, avail, ub)

KeydayFrame ==
  <<MBUS_FRAME_LONG_START, 8, 8, MBUS_FRAME_LONG_START,
    MBUS_C_SND_UD, 254, MBUS_CI_DATA_SEND,
    2, 236, 0,
    BitOr(EM_SET_KEYDAY_DAY, 224), BitOr(EM_SET_KEYDAY_MONTH, 240),
    0, MBUS_FRAME_STOP>>

em_set_keyday(wr, avail, ub) == mbus_io_acked(KeydayFrame, 14, wr, avail, ub)

RequestFrame(sub, cs) ==
  <<MBUS_FRAME_LONG_START, 8, 8, MBUS_FRAME_LONG_START,
    MBUS_C_SND_UD, 254, MBUS_CI_DATA_SEND,
    15, sub, 0, 0, 96, cs, MBUS_FRAME_STOP>>

\* lines 427-482, the walk run to its end
RECURSIVE InfoWalk(_, _, _)
InfoWalk(in, p, ovr) ==
  LET it == InfoIter(in, p) IN
  IF it.brk THEN [recs |-> <<>>, crash |-> FALSE]
  ELSE IF it.chars > 63 /\ ovr = "aborted" THEN [recs |-> <<>>, crash |-> TRUE]
  ELSE IF it.next > At(in.buf, 1) THEN [recs |-> <<it.rec>>, crash |-> FALSE]
  ELSE LET rest == InfoWalk(in, it.next, ovr)
       IN [recs |-> <<it.rec>> \o rest.recs, crash |-> rest.crash]

em_read_info(wr, avail, stale, ub, ovr) ==
  LET io == mbus_io(ShortTemplate(MBUS_C_REQ_UD2, 254), 5, 256, wr, avail, ub) IN
  IF io.crash THEN Died(io.writes, <<>>, <<>>)
  ELSE IF io.ret < 0 THEN Res(-io.ret, io.writes, <<Io(avail, io)>>, <<>>)
  ELSE LET chk == mbus_checklong(io.in, io.ret, ub) IN
    IF chk.crash THEN Died(io.writes, <<Io(avail, io)>>, <<>>)
    ELSE IF chk.ret < 71 THEN Res(EPROTO, io.writes, <<Io(avail, io)>>, <<>>)
    ELSE LET w == InfoWalk([buf |-> io.in, stale |-> stale],
                           MBUS_FRAME_LONG_HDR_LEN + MBUS_RSPUD12_HDR_LEN, ovr)
         IN IF w.crash THEN Died(io.writes, <<Io(avail, io)>>, w.recs)
            ELSE Res(0, io.writes, <<Io(avail, io)>>, w.recs)

em_read_highres(wr, avail, ub, ubi) ==
  LET io == mbus_io(RequestFrame(1, 18), 14, 64, wr, avail, ub) IN
  IF io.crash THEN Died(io.writes, <<>>, <<>>)
  ELSE IF io.ret < 0 THEN Res(-io.ret, io.writes, <<Io(avail, io)>>, <<>>)
  ELSE LET chk == mbus_checklong(io.in, io.ret, ub)
           o == MBUS_FRAME_LONG_HDR_LEN + MBUS_RSPUD12_HDR_LEN
       IN
    IF chk.crash THEN Died(io.writes, <<Io(avail, io)>>, <<>>)
    ELSE IF chk.ret < 25 THEN Res(EPROTO, io.writes, <<Io(avail, io)>>, <<>>)
    ELSE Res(0, io.writes, <<Io(avail, io)>>,
             <<Reading32(At(io.in, o), At(io.in, o + 1), At(io.in, o + 2),
                         At(io.in, o + 3), ubi)>>)

\* one pass of em_read_months' loop, lines 539-558
MonthsExchange(i, wr, avail, ub, ubi) ==
  LET io == mbus_io(RequestFrame(IF i = 1 THEN 3 ELSE 2, 0), 14, 256, wr, avail, ub) IN
  IF io.crash THEN Died(io.writes, <<>>, <<>>)
  ELSE IF io.ret < 0 THEN Res(-io.ret, io.writes, <<Io(avail, io)>>, <<>>)
  ELSE LET m == MonthsInterpret([buf |-> io.in, stale |-> 0], ub, ubi) IN
    IF m.crash THEN Died(io.writes, <<Io(avail, io)>>, <<>>)
    ELSE Res(m.ret, io.writes, <<Io(avail, io)>>, m.recs)

em_read_months(wr1, avail1, wr2, avail2, ub, ubi) ==
  LET first == MonthsExchange(0, wr1, avail1, ub, ubi) IN
  IF first.crash \/ first.ret # 0 THEN first
  ELSE LET second == MonthsExchange(1, wr2, avail2, ub, ubi) IN
    [ret |-> second.ret, writes |-> first.writes \o second.writes,
     ios |-> first.ios \o second.ios, shown |-> first.shown \o second.shown,
     crash |-> second.crash]

\* em_get_params taking every frame that validates, whatever its length
em_get_params_nofloor(wr, avail, ub) ==
  LET io == mbus_io(RequestFrame(4, 21), 14, 64, wr, avail, ub) IN
  IF io.crash THEN Died(io.writes, <<>>, <<>>)
  ELSE IF io.ret < 0 THEN Res(-io.ret, io.writes, <<Io(avail, io)>>, <<>>)
  ELSE LET chk == mbus_checklong(io.in, io.ret, ub)
           o == MBUS_FRAME_LONG_HDR_LEN + MBUS_RSPUD12_HDR_LEN
       IN
    IF chk.crash THEN Died(io.writes, <<Io(avail, io)>>, <<>>)
    ELSE IF chk.ret < 1 THEN Res(EPROTO, io.writes, <<Io(avail, io)>>, <<>>)
    ELSE Res(0, io.writes, <<Io(avail, io)>>,
             <<em_dump_settings(SubSeq(io.in, o + 1, o + 20))>>)

em_get_params(wr, avail, ub) ==
  LET io == mbus_io(RequestFrame(4, 21), 14, 64, wr, avail, ub) IN
  IF io.crash THEN Died(io.writes, <<>>, <<>>)
  ELSE IF io.ret < 0 THEN Res(-io.ret, io.writes, <<Io(avail, io)>>, <<>>)
  ELSE LET chk == mbus_checklong(io.in, io.ret, ub)
           o == MBUS_FRAME_LONG_HDR_LEN + MBUS_RSPUD12_HDR_LEN
       IN
    IF chk.crash THEN Died(io.writes, <<Io(avail, io)>>, <<>>)
    ELSE IF chk.ret < 45 THEN Res(EPROTO, io.writes, <<Io(avail, io)>>, <<>>)
    ELSE Res(0, io.writes, <<Io(avail, io)>>,
             <<em_dump_settings(SubSeq(io.in, o + 1, o + 20))>>)

em_set_params(wr, avail, ub) ==
  LET frame == SetParamsFrame(ConfiguredSettings)
      dump == em_dump_settings(SubSeq(frame, MBUS_FRAME_LONG_HDR_LEN + 9 + 1,
                                      MBUS_FRAME_LONG_HDR_LEN + 9 + 20))
      r == mbus_io_acked(frame, 42, wr, avail, ub)
  IN [r EXCEPT !.shown = <<dump>>]

AesFrame ==
  <<MBUS_FRAME_LONG_START, 28, 28, MBUS_FRAME_LONG_START,
    MBUS_C_SND_UD, 254, MBUS_CI_DATA_SEND,
    15, 131, 0, 0, 96, 0, 0, 0, 0,
    137, 79, 159, 52, 205, 209, 147, 65,
    171, 220, 255, 91, 234, 102, 16, 188,
    0, MBUS_FRAME_STOP>>

\* em_set_aes with the early return removed
em_set_aes_enabled(wr, avail, ub) == mbus_io_acked(AesFrame, 34, wr, avail, ub)

\* line 678: return 7 before anything is sent
em_set_aes(wr, avail, ub) == Res(7, <<>>, <<>>, <<>>)


(***************************************************************************)
(* main(): open, 8N1, wakeup, 8E1, one operation, close.                   *)
(***************************************************************************)
OpNames == {"set_time", "set_aes", "set_keyday", "set_params", "read_months",
            "read_info", "read_highres", "get_params"}

AckedOps == {"set_time", "set_keyday", "set_params"}

\* write() answers: an error, part of the frame, the whole frame
WriteResults(len) == {-1, len \div 2, len}

Corrupt(frame) == SetAt(frame, 8, FlipBit(At(frame, 8), 0))

AckReplies ==
  {<<>>, <<MBUS_FRAME_ACK>>, <<MBUS_FRAME_ACK, 0>>, <<0>>, Pattern(9, MBUS_FRAME_ACK, 0)}

HighresReplies ==
  {<<>>, <<MBUS_FRAME_ACK>>, DeviceFrame(24, 1, 1), DeviceFrame(25, 1, 1),
   DeviceFrame(25, 200, 0), DeviceFrame(64, 3, 7), DeviceFrame(70, 1, 1),
   Corrupt(DeviceFrame(25, 1, 1))}

ParamsReplies ==
  {<<>>, <<MBUS_FRAME_ACK>>, DeviceFrame(44, 1, 1), DeviceFrame(45, 1, 1),
   DeviceFrame(64, 3, 7), DeviceFrame(70, 1, 1), Corrupt(DeviceFrame(45, 1, 1)),
   FrameAround(Pattern(MBUS_RSPUD12_HDR_LEN, 18, 1)
               \o SubSeq(SetParamsFrame(ConfiguredSettings), 17, 36)
               \o <<0, 0, 0, 0>>)}

MonthsReplies ==
  {<<>>, <<MBUS_FRAME_ACK>>, DeviceFrame(110, 1, 1), DeviceFrame(111, 1, 7),
   DeviceFrame(117, 200, 0), DeviceFrame(256, 1, 1), Corrupt(DeviceFrame(111, 1, 7))}

\* the replies to the second request of read_months
MonthsReplies2 ==
  {<<>>, DeviceFrame(110, 1, 1), DeviceFrame(111, 9, 7), DeviceFrame(256, 1, 1)}

\* outcomes of the two undefined computations, taken together
UBPairs == {<<"stop", "wrap">>, <<"checksum", "min">>, <<"pass", "max">>, <<"crash", "wrap">>}

InfoFrame(a, b, f, total) ==
  LET lead == Pattern(MBUS_RSPUD12_HDR_LEN, 18, 1) \o RecordSamples[a] \o RecordSamples[b]
      room == total - MBUS_FRAME_LONG_HDR_LEN - MBUS_FRAME_FTR_LEN
  IN FrameAround(SubSeq(lead \o Pattern(room, f, 0), 1, room))

InfoReplies ==
  {<<>>, <<MBUS_FRAME_ACK>>, InfoFrame(1, 3, 15, 70), InfoFrame(1, 3, 15, 71),
   InfoFrame(3, 5, 0, 71), InfoFrame(6, 8, 47, 78), InfoFrame(3, 7, 4, 71),
   Corrupt(InfoFrame(1, 3, 15, 71))}

TimeSamples ==
  {[min |-> 0, hour |-> 0, mday |-> 1, mon |-> 0, year |-> 2025],
   [min |-> 59, hour |-> 23, mday |-> 31, mon |-> 11, year |-> 2127]}

NoOp == [name |-> "none", writes |-> <<>>, ios |-> <<>>, shown |-> <<>>]

Init ==
  /\ CIdle
  /\ HIdle
  /\ pc = "start"
  /\ \E n \in 1 .. 4 :
       /\ argc = n
       /\ arg \in (IF n = 3 THEN OpNames \cup {"bogus"} ELSE {"none"})
  /\ closes = 0
  /\ written = <<>>
  /\ ret = 1
  /\ opres = NoOp
  /\ life = <<>>

\* lines 689-692
MainArgs ==
  /\ pc = "start"
  /\ pc' = IF argc # 2 /\ argc # 3 THEN "exited" ELSE "open"
  /\ UNCHANGED <<argc, arg, closes, written, ret, opres, life, cvars, hvars>>

\* lines 694-698
MainOpen ==
  /\ pc = "open"
  /\ \E ok \in BOOLEAN :
       /\ pc' = IF ok THEN "attribs 8N1" ELSE "exited"
       /\ life' = Append(life, IF ok THEN "open" ELSE "open failed")
  /\ UNCHANGED <<argc, arg, closes, written, ret, opres, cvars, hvars>>

\* lines 700-705
MainAttribs1 ==
  /\ pc = "attribs 8N1"
  /\ \E ok \in BOOLEAN :
       /\ pc' = IF ok THEN "wakeup" ELSE "fail_cs"
       /\ life' = Append(life, IF ok THEN "attribs 8N1" ELSE "attribs 8N1 failed")
  /\ UNCHANGED <<argc, arg, closes, written, ret, opres, cvars, hvars>>

\* lines 707-708
MainWakeup ==
  /\ pc = "wakeup"
  /\ \E wr \in WriteResults(25) : written' = written \o mbus_wakeup(wr)
  /\ pc' = "attribs 8E1"
  /\ life' = Append(life, "wakeup")
  /\ UNCHANGED <<argc, arg, closes, ret, opres, cvars, hvars>>

\* lines 710-715
MainAttribs2 ==
  /\ pc = "attribs 8E1"
  /\ \E ok \in BOOLEAN :
       /\ pc' = IF ok THEN "dispatch" ELSE "fail_cs"
       /\ life' = Append(life, IF ok THEN "attribs 8E1" ELSE "attribs 8E1 failed")
  /\ UNCHANGED <<argc, arg, closes, written, ret, opres, cvars, hvars>>

\* ret = em_...(serial_fd); an operation that does not return ends the process
Dispatched(name, r) ==
  /\ written' = written \o r.writes
  /\ opres' = [name |-> name, writes |-> r.writes, ios |-> r.ios, shown |-> r.shown]
  /\ ret' = IF r.crash THEN ret ELSE r.ret
  /\ pc' = IF r.crash THEN "crashed" ELSE "fail_cs"
  /\ life' = Append(life, "operation")
  /\ UNCHANGED <<argc, arg, closes, cvars, hvars>>

DoSetTime ==
  /\ pc = "dispatch" /\ arg = "set_time"
  /\ \E tm \in TimeSamples, wr \in WriteResults(16), avail \in AckReplies, ub \in UBOutcomes :
       Dispatched("set_time", em_set_time(tm, wr, avail, ub))

DoSetAes ==
  /\ pc = "dispatch" /\ arg = "set_aes"
  /\ \E wr \in WriteResults(34), avail \in AckReplies, ub \in UBOutcomes :
       Dispatched("set_aes", em_set_aes(wr, avail, ub))

DoSetKeyday ==
  /\ pc = "dispatch" /\ arg = "set_keyday"
  /\ \E wr \in WriteResults(14), avail \in AckReplies, ub \in UBOutcomes :
       Dispatched("set_keyday", em_set_keyday(wr, avail, ub))

DoSetParams ==
  /\ pc = "dispatch" /\ arg = "set_params"
  /\ \E wr \in WriteResults(42), avail \in AckReplies, ub \in UBOutcomes :
       Dispatched("set_params", em_set_params(wr, avail, ub))

DoReadMonths ==
  /\ pc = "dispatch" /\ arg = "read_months"
  /\ \E wr1 \in WriteResults(14), avail1 \in MonthsReplies,
        wr2 \in {-1, 14}, avail2 \in MonthsReplies2, u \in UBPairs :
       Dispatched("read_months", em_read_months(wr1, avail1, wr2, avail2, u[1], u[2]))

DoReadInfo ==
  /\ pc = "dispatch" /\ arg = "read_info"
  /\ \E wr \in WriteResults(5), avail \in InfoReplies, stale \in {0, 255},
        ub \in UBOutcomes, ovr \in BufOverrun :
       Dispatched("read_info", em_read_info(wr, avail, stale, ub, ovr))

DoReadHighres ==
  /\ pc = "dispatch" /\ arg = "read_highres"
  /\ \E wr \in WriteResults(14), avail \in HighresReplies, u \in UBPairs :
       Dispatched("read_highres", em_read_highres(wr, avail, u[1], u[2]))

\* line 731: every other argv[2], and none, is get_params
DoGetParams ==
  /\ pc = "dispatch" /\ arg \notin (OpNames \ {"get_params"})
  /\ \E wr \in WriteResults(14), avail \in ParamsReplies, ub \in UBOutcomes :
       Dispatched("get_params", em_get_params(wr, avail, ub))

\* lines 735-738
MainClose ==
  /\ pc = "fail_cs"
  /\ closes' = closes + 1
  /\ pc' = "exited"
  /\ life' = Append(life, "close")
  /\ UNCHANGED <<argc, arg, written, ret, opres, cvars, hvars>>

Next ==
  \/ MainArgs \/ MainOpen \/ MainAttribs1 \/ MainWakeup \/ MainAttribs2
  \/ DoSetTime \/ DoSetAes \/ DoSetKeyday \/ DoSetParams
  \/ DoReadMonths \/ DoReadInfo \/ DoReadHighres \/ DoGetParams
  \/ MainClose

Spec == Init /\ [][Next]_vars

(***************************************************************************)
(* Claims about the operations, under Spec.                                *)
(***************************************************************************)
OpRan == opres.name # "none"

WholeWrite(w) == w.n = Len(w.data)

\* C1: a run that selects set_aes writes nothing but the wakeup bytes, and
\* em_set_aes answers a non-zero failure.
C1_AesNeverSends ==
  arg = "set_aes" /\ argc = 3 =>
    /\ \A k \in 1 .. Len(written) : written[k].data = WakeupFrame
    /\ (OpRan => (opres.name = "set_aes" /\ ret = 7 /\ opres.writes = <<>>))
    /\ (pc = "exited" => ret # 0)

C1_Witness ==
  /\ pc = "exited"
  /\ opres.name = "set_aes"
  /\ ret = 7
  /\ Len(written) = 20
  /\ closes = 1

\* C4: an exchange in which the transport delivers no byte answers -EIO,
\* it is the operation's last exchange, and the operation returns EIO,
\* never 0.
C4_TimeoutFails ==
  \A k \in 1 .. Len(opres.ios) :
    opres.ios[k].reply = <<>> =>
      /\ opres.ios[k].ret = -EIO
      /\ k = Len(opres.ios)
      /\ (pc \in {"fail_cs", "exited"} => ret = EIO)

C4_Witness ==
  /\ pc = "exited"
  /\ opres.name = "read_months"
  /\ Len(opres.ios) = 2
  /\ opres.ios[2].reply = <<>>
  /\ Len(opres.shown) = 15
  /\ ret = EIO

\* C5: an acknowledged operation succeeds if and only if the reply is the
\* single byte 0xE5; every other reply that is not empty is a protocol
\* failure.
C5_AckExactlyOneByte ==
  (opres.name \in AckedOps /\ Len(opres.ios) = 1) =>
    /\ (ret = 0) <=> (opres.ios[1].reply = <<MBUS_FRAME_ACK>>)
    /\ (opres.ios[1].reply \notin {<<>>, <<MBUS_FRAME_ACK>>} => ret = EPROTO)

\* C6: an operation whose request write failed (write() answered an error
\* or fewer bytes than the frame) never reports success.
C6_WriteFailureTerminal ==
  (OpRan /\ \E k \in 1 .. Len(opres.writes) : ~WholeWrite(opres.writes[k])) => ret # 0

(***************************************************************************)
(* Claims about the read operations, under Spec.                           *)
(***************************************************************************)
ReadOps == {"read_info", "get_params", "read_months", "read_highres"}

\* the least total length of a reply the operation goes on to interpret
Floor(name) ==
  IF name = "read_info" THEN 71
  ELSE IF name = "get_params" THEN 45
  ELSE IF name = "read_months" THEN 111
  ELSE 25

\* the size of the operation's receive buffer
InLen(name) == IF name \in {"read_info", "read_months"} THEN 256 ELSE 64

\* the bytes b begin with a well-formed long frame of at least min bytes:
\* 68 L L 68, L + 6 bytes there, the checksum of bytes 4 .. L + 3, then 16
LongFrameOfAtLeast(b, min) ==
  /\ Len(b) >= MBUS_FRAME_LONG_HDR_LEN + MBUS_FRAME_FTR_LEN
  /\ b[1] = MBUS_FRAME_LONG_START /\ b[4] = MBUS_FRAME_LONG_START
  /\ b[2] = b[3]
  /\ b[2] + 6 <= Len(b)
  /\ b[b[2] + 6] = MBUS_FRAME_STOP
  /\ b[b[2] + 5] = SumFrom(b, 4, b[2] + 4) % UCHAR
  /\ b[2] + 6 >= min

\* exchange k of the operation received a frame that meets its floor
MetFloor(k) ==
  LET n == Min(Len(opres.ios[k].reply), InLen(opres.name))
  IN LongFrameOfAtLeast(SubSeq(opres.ios[k].reply, 1, n), Floor(opres.name))

\* C13: a read operation answers 0 only if every reply validated as a long
\* frame of at least the operation's floor (read_info 71, get_params 45,
\* read_months 111 for both exchanges, read_highres 25); a reply that does
\* not is the last exchange, nothing of it is interpreted and the
\* operation fails; read_months sends its second request only after the
\* first reply met the floor.
C13_FloorBeforeInterpreting ==
  (opres.name \in ReadOps) =>
    /\ \A k \in 1 .. Len(opres.ios) :
         ~MetFloor(k) =>
           /\ k = Len(opres.ios)
           /\ (pc \in {"fail_cs", "exited"} => ret \in {EIO, EPROTO})
           /\ Len(opres.shown) = (IF opres.name = "read_months" THEN 15 * (k - 1) ELSE 0)
    /\ (Len(opres.writes) > 1 =>
         (opres.name = "read_months" /\ Len(opres.writes) = 2 /\ MetFloor(1)))
    /\ (opres.shown # <<>> => \E k \in 1 .. Len(opres.ios) : MetFloor(k))

C13_Witness ==
  /\ pc = "exited"
  /\ opres.name = "read_months"
  /\ Len(opres.ios) = 2
  /\ MetFloor(1)
  /\ ~MetFloor(2)
  /\ opres.ios[2].reply # <<>>
  /\ Len(opres.writes) = 2
  /\ Len(opres.shown) = 15
  /\ ret = EPROTO

(***************************************************************************)
(* Claims about main's use of the serial port, under Spec.                 *)
(***************************************************************************)
IsPrefix(a, b) == Len(a) <= Len(b) /\ SubSeq(b, 1, Len(a)) = a

\* the orders in which a run may use the port
Lifecycles ==
  { <<"open failed">>,
    <<"open", "attribs 8N1 failed", "close">>,
    <<"open", "attribs 8N1", "wakeup", "attribs 8E1 failed", "close">>,
    <<"open", "attribs 8N1", "wakeup", "attribs 8E1", "operation", "close">> }

Occurs(e) == \E k \in 1 .. Len(life) : life[k] = e

Count(e) == Cardinality({k \in 1 .. Len(life) : life[k] = e})

\* a write() of anything but the wakeup characters
OperationFrameWritten == \E k \in 1 .. Len(written) : written[k].data # WakeupFrame

ProcessOver == pc \in {"exited", "crashed"}

\* the port is used in order, operation frames wait for the second
\* configuration, and a failed configuration sends none
C14_Ordered ==
  /\ \E l \in Lifecycles : IsPrefix(life, l)
  /\ (OperationFrameWritten =>
       /\ Occurs("wakeup") /\ Occurs("attribs 8E1")
       /\ Len(written) > 20
       /\ \A k \in 1 .. 20 : written[k].data = WakeupFrame)
  /\ ((Occurs("attribs 8N1 failed") \/ Occurs("attribs 8E1 failed")) =>
       (~OperationFrameWritten /\ ~OpRan))
  /\ (pc = "exited" /\ ~OpRan => ret # 0)

\* C14: every run uses the port in the order open, 8N1, wakeup, 8E1, one
\* operation, close; no operation frame is written before the wakeup was
\* sent and 8E1 was set; a failed configuration sends no operation frame;
\* and when the process is over after a successful open, the port was
\* closed exactly once, with a non-zero exit code if the run failed.
C14_Lifecycle ==
  /\ C14_Ordered
  /\ ((ProcessOver /\ Occurs("open")) => (Count("close") = 1 /\ closes = 1))

=============================================================================
